---- MODULE Spec2Model ----
(***************************************************************************)
(* Model of notebooks/medical_nifti_image_loading_example.ipynb:           *)
(*   warmup_kvikio()            (cell cc03538d)                            *)
(*   kvikio.defaults.num_threads_reset(nthreads=4)   (cell 547213d4)       *)
(*   data preparation           (cells 45f893a0, 028021e2)                 *)
(*   nifti_gpu_load(filename)   (cell fac454d7)                            *)
(*   validation with np.all(==) and np.allclose (cells 72475fa5, 784ee851) *)
(* Bytes are integers 0..255, Python index p of a buffer is position p+1   *)
(* of the sequence that models it.  Floating point values are modelled as  *)
(* integers (fixed point) and float32 header fields are decoded from their *)
(* IEEE-754 bytes for integral values.                                     *)
(***************************************************************************)
EXTENDS Integers, Sequences, FiniteSets, TLC

VARIABLES
    cell,       \* notebook cell being executed
    wpc,        \* warmup_kvikio: program position
    wh,         \* warmup_kvikio: state of the handle opened with "w"
    rh,         \* warmup_kvikio: state of the handle opened with "r"
    tmp,        \* warmup_kvikio: the NamedTemporaryFile
    werr,       \* warmup_kvikio: exception in flight
    nthreads,   \* size of the kvikio thread pool
    file,       \* the file at example_nifti_path
    pc,         \* nifti_gpu_load: program position
    file_size,  \* nifti_gpu_load: local file_size
    image,      \* nifti_gpu_load: contents of the device buffer `image`
    bufState,   \* who holds the device buffer of the current call
    handle,     \* nifti_gpu_load: state of the CuFile handle f
    tasks,      \* read tasks of the kvikio thread pool for f.read(image)
    header,     \* nifti_gpu_load: local header (parsed fields)
    err,        \* nifti_gpu_load: exception raised by the call
    ret,        \* nifti_gpu_load: value returned by the call
    calls,      \* outcomes of the finished nifti_gpu_load calls, in order
    cmpA, cmpB, \* validation: the two arrays handed to np.allclose
    affA, affB, \* validation: the two affines handed to np.all(==)
    cmpRes      \* validation: outcome

loadVars == <<file, pc, file_size, image, bufState, handle, tasks, header, err, ret, calls>>
warmVars == <<wpc, wh, rh, tmp, werr>>
cmpVars  == <<cmpA, cmpB, affA, affB, cmpRes>>
vars == <<cell, wpc, wh, rh, tmp, werr, nthreads, file, pc, file_size, image,
          bufState, handle, tasks, header, err, ret, calls,
          cmpA, cmpB, affA, affB, cmpRes>>

----------------------------------------------------------------------------
(* Bounds of the model *)

\* number of nifti_gpu_load calls made on the prepared file
MaxCalls == 2
\* bytes handled by one read task of the thread pool (kvikio default: 4 MiB)
TaskSize == 100
\* largest number of bytes a candidate file is longer/shorter than declared
MaxDelta == 2

(* Program constants *)

\* image[:348]
HeaderLen == 348
\* kvikio.defaults.num_threads_reset(nthreads=4)
NumThreads == 4
\* thread pool size before num_threads_reset (KVIKIO_NTHREADS default)
DefaultThreads == 1
\* np.allclose defaults rtol=1e-05, atol=1e-08, in units of 1e-8:
\*   |a - b| <= AtolUnits + |b| / RtolInv
RtolInv == 100000
AtolUnits == 1

\* content of a byte of cp.empty memory nothing has written yet
Uninit == -1
None == "None"

----------------------------------------------------------------------------
(* Arithmetic helpers *)

Min(a, b) == IF a < b THEN a ELSE b
Max(a, b) == IF a > b THEN a ELSE b
Abs(a) == IF a < 0 THEN -a ELSE a

RECURSIVE Pow2(_)
Pow2(n) == IF n <= 0 THEN 1 ELSE 2 * Pow2(n - 1)

RECURSIVE Prod(_)
Prod(s) == IF s = <<>> THEN 1 ELSE Head(s) * Prod(Tail(s))

\* Python slice s[start:] of a one-dimensional buffer
SliceFrom(s, start) ==
    LET n  == Len(s)
        st == IF start < 0 THEN Max(n + start, 0) ELSE Min(start, n)
    IN  SubSeq(s, st + 1, n)

\* Python slice s[:stop] of a one-dimensional buffer
SliceTo(s, stop) ==
    LET n  == Len(s)
        sp == IF stop < 0 THEN Max(n + stop, 0) ELSE Min(stop, n)
    IN  SubSeq(s, 1, sp)

\* little-endian unsigned integer stored in w bytes at Python index p
UIntAt(s, p, w) ==
    LET RECURSIVE U(_)
        U(b) == IF b = w THEN 0 ELSE s[p + b + 1] * Pow2(8 * b) + U(b + 1)
    IN  U(0)

\* little-endian two's complement int16 at Python index p
Int16At(s, p) ==
    LET u == UIntAt(s, p, 2) IN IF u >= 32768 THEN u - 65536 ELSE u

\* little-endian two's complement int32 at Python index p
Int32At(s, p) ==
    LET b3 == s[p + 4]
    IN  UIntAt(s, p, 3) + (IF b3 >= 128 THEN b3 - 256 ELSE b3) * 16777216

\* IEEE-754 float32 at Python index p, converted with int() (truncation);
\* magnitudes of 2^30 and more are not told apart
Float32IntAt(s, p) ==
    LET b0 == s[p + 1]
        b1 == s[p + 2]
        b2 == s[p + 3]
        b3 == s[p + 4]
        ex == (b3 % 128) * 2 + (b2 \div 128)
        mant == (b2 % 128) * 65536 + b1 * 256 + b0
        mag == IF ex < 127 THEN 0
               ELSE IF ex <= 150 THEN (8388608 + mant) \div Pow2(150 - ex)
               ELSE (8388608 + mant) * Pow2(Min(ex - 150, 6))
    IN  IF b3 >= 128 THEN -mag ELSE mag

----------------------------------------------------------------------------
(* NIfTI-1 header: the bytes nibabel reads (Nifti1Header.from_fileobj) *)

\* w bytes, little-endian two's complement, of the integer v
EncodeInt(v, w) ==
    [k \in 1..w |-> (v \div Pow2(8 * (k - 1))) % 256]

\* IEEE-754 float32 bytes of the integer v, |v| < 2^24
EncodeF32(v) ==
    IF v = 0 THEN <<0, 0, 0, 0>>
    ELSE LET m == Abs(v)
             e == CHOOSE x \in 0..23 : Pow2(x) <= m /\ m < Pow2(x + 1)
             mant == m * Pow2(23 - e) - 8388608
             ex == e + 127
         IN  << mant % 256,
                (mant \div 256) % 256,
                (ex % 2) * 128 + (mant \div 65536),
                (IF v < 0 THEN 128 ELSE 0) + (ex \div 2) >>

\* byte offsets of the header fields (nifti1.h)
OffSizeofHdr == 0
OffDim == 40
OffDatatype == 70
OffBitpix == 72
OffVoxOffset == 108
OffSformCode == 254
OffSrow == 280
OffMagic == 344

\* "n+1\0", the magic of a single-file NIfTI-1 image
MagicSingle == <<110, 43, 49, 0>>
\* smallest data offset nibabel accepts for a single file (single_vox_offset)
SingleVoxOffset == 352

\* NIfTI datatype codes the model covers, with their numpy byte width
DT_UINT8 == 2
DT_INT16 == 4
DtypeCodes == {DT_UINT8, DT_INT16}
ItemSize(code) == IF code = DT_UINT8 THEN 1 ELSE 2

\* the 348 header bytes of the header fields h
\*   h = [sizeof_hdr, dim, datatype, vox_offset, srow, magic]
HeaderBytes(h) ==
    LET F == << <<OffSizeofHdr, EncodeInt(h.sizeof_hdr, 4)>>,
                <<OffDim, EncodeInt(Len(h.dim), 2)>>,
                <<OffDim + 2, EncodeInt(h.dim[1], 2)>>,
                <<OffDim + 4, EncodeInt(h.dim[2], 2)>>,
                <<OffDim + 6, EncodeInt(h.dim[3], 2)>>,
                <<OffDatatype, EncodeInt(h.datatype, 2)>>,
                <<OffBitpix, EncodeInt(8 * ItemSize(h.datatype), 2)>>,
                <<OffVoxOffset, EncodeF32(h.vox_offset)>>,
                <<OffSformCode, EncodeInt(1, 2)>>,
                <<OffSrow, EncodeF32(h.srow[1][1]) \o EncodeF32(h.srow[1][2])
                           \o EncodeF32(h.srow[1][3]) \o EncodeF32(h.srow[1][4])>>,
                <<OffSrow + 16, EncodeF32(h.srow[2][1]) \o EncodeF32(h.srow[2][2])
                           \o EncodeF32(h.srow[2][3]) \o EncodeF32(h.srow[2][4])>>,
                <<OffSrow + 32, EncodeF32(h.srow[3][1]) \o EncodeF32(h.srow[3][2])
                           \o EncodeF32(h.srow[3][3]) \o EncodeF32(h.srow[3][4])>>,
                <<OffMagic, h.magic>> >>
        In(i, p) == p >= F[i][1] /\ p < F[i][1] + Len(F[i][2])
    IN  [q \in 1..HeaderLen |->
            IF \E i \in DOMAIN F : In(i, q - 1)
            THEN LET i == CHOOSE x \in DOMAIN F : In(x, q - 1)
                 IN  F[i][2][q - F[i][1]]
            ELSE 0]

\* nib.Nifti1Header.from_fileobj(io.BytesIO(header_bytes)) followed by
\* get_data_offset, get_data_shape, get_data_dtype, get_best_affine:
\* the parsed fields, or the exception the parser raises
ParseHeader(hb) ==
    IF Len(hb) # HeaderLen
    THEN [error |-> "WrapStructError"]
    ELSE LET sizeof_hdr == Int32At(hb, OffSizeofHdr)
             ndim == Int16At(hb, OffDim)
             datatype == Int16At(hb, OffDatatype)
             vox_offset == Float32IntAt(hb, OffVoxOffset)
             magic == SubSeq(hb, OffMagic + 1, OffMagic + 4)
             Row(r) == [c \in 1..4 |-> Float32IntAt(hb, OffSrow + 16 * (r - 1) + 4 * (c - 1))]
         IN  IF \/ sizeof_hdr # HeaderLen
                \/ ndim < 1 \/ ndim > 7
                \/ datatype \notin DtypeCodes
                \/ magic # MagicSingle
                \/ (vox_offset # 0 /\ vox_offset < SingleVoxOffset)
             THEN [error |-> "HeaderDataError"]
             ELSE [error |-> None,
                   data_offset |-> vox_offset,
                   data_shape |-> [k \in 1..ndim |-> Int16At(hb, OffDim + 2 * k)],
                   data_dtype |-> datatype,
                   affine |-> <<Row(1), Row(2), Row(3), <<0, 0, 0, 1>>>>]

----------------------------------------------------------------------------
(* The files the data preparation cells may leave at example_nifti_path *)

Identity3x4 == << <<1, 0, 0, 0>>, <<0, 1, 0, 0>>, <<0, 0, 1, 0>> >>
Scaled3x4 == << <<2, 0, 0, -5>>, <<0, 1, 0, 0>>, <<0, 0, 3, 7>> >>

Shapes == { <<2, 2, 2>>, <<2, 3, 4>>, <<4, 4, 4>> }
Offsets == { 352, 368 }

MissingFile == [exists |-> FALSE, canOpen |-> FALSE, canRead |-> FALSE, bytes |-> <<>>]

RawFile(bytes) == [exists |-> TRUE, canOpen |-> TRUE, canRead |-> TRUE, bytes |-> bytes]

\* header h, a gap of bytes 255 up to vox_offset, a payload of Prod(dim)
\* elements counting up from base, and bytes 7 after it, n bytes in all
ImageBytes(h, base, n) ==
    LET w == ItemSize(h.datatype)
        hb == HeaderBytes(h)
        cnt == Prod(h.dim)
    IN  [q \in 1..n |->
            LET p == q - 1 IN
            IF p < HeaderLen THEN hb[q]
            ELSE IF p < h.vox_offset THEN 255
            ELSE IF p < h.vox_offset + cnt * w
                 THEN EncodeInt(base + ((p - h.vox_offset) \div w), w)[((p - h.vox_offset) % w) + 1]
            ELSE 7]

GoodHeaders ==
    [sizeof_hdr : {HeaderLen}, dim : Shapes, datatype : DtypeCodes,
     vox_offset : Offsets, srow : {Identity3x4, Scaled3x4}, magic : {MagicSingle}]

ScenarioHeader ==
    [sizeof_hdr |-> HeaderLen, dim |-> <<4, 4, 4>>, datatype |-> DT_INT16,
     vox_offset |-> 352, srow |-> Identity3x4, magic |-> MagicSingle]

\* headers the parser rejects: wrong sizeof_hdr, wrong magic, data offset
\* inside the header
BadHeaders ==
    { [ScenarioHeader EXCEPT !.sizeof_hdr = 540],
      [ScenarioHeader EXCEPT !.magic = <<110, 43, 50, 0>>],
      [ScenarioHeader EXCEPT !.vox_offset = 348] }

DeclaredLen(h) == h.vox_offset + Prod(h.dim) * ItemSize(h.datatype)

\* files whose header parses: as long as declared, and up to MaxDelta bytes
\* longer or shorter, and cut right after the header
ParsingFiles ==
    { RawFile(ImageBytes(h, 0, DeclaredLen(h) + d)) :
         h \in { g \in GoodHeaders : g.srow = Identity3x4 }, d \in (-MaxDelta)..MaxDelta }
    \cup { RawFile(ImageBytes(h, 250, DeclaredLen(h))) :
         h \in { g \in GoodHeaders : g.srow = Scaled3x4 } }
    \cup { RawFile(ImageBytes(h, 0, HeaderLen)) :
         h \in { g \in GoodHeaders : g.srow = Scaled3x4 /\ g.dim = <<2, 2, 2>> } }

TruncatedFiles ==
    { RawFile(SubSeq(HeaderBytes(ScenarioHeader), 1, n)) : n \in {0, 1, 347} }

MalformedFiles ==
    { RawFile(ImageBytes(h, 0, 480)) : h \in BadHeaders }

\* files that exist but cannot be opened, or whose read fails
FailingFiles ==
    { [RawFile(ImageBytes(ScenarioHeader, 0, 480)) EXCEPT !.canOpen = FALSE],
      [RawFile(ImageBytes(ScenarioHeader, 0, 480)) EXCEPT !.canRead = FALSE] }

Files == {MissingFile} \cup ParsingFiles \cup TruncatedFiles \cup MalformedFiles \cup FailingFiles

----------------------------------------------------------------------------
(* Array reinterpretation: image[data_offset:].view(dtype).reshape(shape, order="F") *)

\* ndarray.view(dtype) of a one-dimensional uint8 buffer: the elements, or
\* ValueError when the byte length is not a multiple of the item size
View(buf, code) ==
    LET w == ItemSize(code) IN
    IF Len(buf) % w # 0
    THEN [error |-> "ValueError"]
    ELSE [error |-> None,
          elems |-> [e \in 1..(Len(buf) \div w) |->
                        IF code = DT_UINT8 THEN UIntAt(buf, e - 1, 1)
                        ELSE Int16At(buf, 2 * (e - 1))]]

\* index tuples (0-based) of an array of the given shape
Indices(shape) ==
    IF Len(shape) = 0 THEN { <<>> }
    ELSE LET m == CHOOSE x \in { shape[k] : k \in DOMAIN shape } :
                     \A k \in DOMAIN shape : shape[k] <= x
         IN  { idx \in [DOMAIN shape -> 0..(m - 1)] :
                  \A k \in DOMAIN shape : idx[k] < shape[k] }

\* FortranIndex with the last index fastest (order="C")
CIndex(idx, shape) ==
    LET RECURSIVE P(_)
        P(k) == IF k > Len(shape) THEN 0
                ELSE idx[k] * Prod(SubSeq(shape, k + 1, Len(shape))) + P(k + 1)
    IN  P(1)

\* position in memory of the element at idx, first index fastest (order="F")
FortranIndex(idx, shape) ==
    LET RECURSIVE P(_)
        P(k) == IF k > Len(shape) THEN 0
                ELSE idx[k] * Prod(SubSeq(shape, 1, k - 1)) + P(k + 1)
    IN  P(1)

\* Reshape that accepts a buffer longer than the shape needs and drops the rest
ReshapeLenient(elems, shape) ==
    IF Len(elems) < Prod(shape)
    THEN [error |-> "ValueError"]
    ELSE [error |-> None,
          shape |-> shape,
          data |-> [idx \in Indices(shape) |-> elems[FortranIndex(idx, shape) + 1]]]

\* ndarray.reshape(shape, order="F"): the array, or ValueError when the
\* number of elements differs from the product of the shape
Reshape(elems, shape) ==
    IF Len(elems) # Prod(shape)
    THEN [error |-> "ValueError"]
    ELSE [error |-> None,
          shape |-> shape,
          data |-> [idx \in Indices(shape) |-> elems[FortranIndex(idx, shape) + 1]]]

----------------------------------------------------------------------------
(* kvikio.CuFile.read: the whole-buffer read, split into tasks of TaskSize *)
(* bytes that the thread pool runs, and waited for before read() returns   *)

NumTasks(nbytes) == (nbytes + TaskSize - 1) \div TaskSize

TaskLo(t) == t * TaskSize
TaskHi(t, nbytes) == Min((t + 1) * TaskSize, nbytes)

Running == { t \in DOMAIN tasks : tasks[t] = "running" }
Finished == \A t \in DOMAIN tasks : tasks[t] \in {"done", "failed"}

----------------------------------------------------------------------------
(* nifti_gpu_load(filename) *)

NoHeader == [error |-> None]
NoResult == [kind |-> "none"]

Raised(e) == [kind |-> "raised", error |-> e]
Returned(img, meta) == [kind |-> "returned", img |-> img, meta |-> meta]

\* the call leaves by raising e: its frame gives up the buffer
Raise(e) ==
    /\ pc' = "raised"
    /\ err' = e
    /\ bufState' = IF bufState = "held" THEN "released" ELSE bufState
    /\ calls' = Append(calls, Raised(e))

\* GetSize taking a missing file for an empty one
GetSizeLenient ==
    /\ cell = "load" /\ pc = "getsize"
    /\ file_size' = Len(file.bytes)
    /\ pc' = "alloc"
    /\ UNCHANGED <<image, bufState, handle, tasks, header, err, ret, calls>>
    /\ UNCHANGED <<cell, warmVars, nthreads, file, cmpVars>>

\* file_size = os.path.getsize(filename)
GetSize ==
    /\ cell = "load" /\ pc = "getsize"
    /\ IF ~file.exists
       THEN /\ Raise("FileNotFoundError")
            /\ UNCHANGED <<file_size, image, handle, tasks, header, ret>>
       ELSE /\ file_size' = Len(file.bytes)
            /\ pc' = "alloc"
            /\ UNCHANGED <<image, bufState, handle, tasks, header, err, ret, calls>>
    /\ UNCHANGED <<cell, warmVars, nthreads, file, cmpVars>>

\* image = cp.empty(file_size, dtype=cp.uint8)
Alloc ==
    /\ cell = "load" /\ pc = "alloc"
    /\ image' = [p \in 1..file_size |-> Uninit]
    /\ bufState' = "held"
    /\ pc' = "open"
    /\ UNCHANGED <<cell, warmVars, nthreads, file, file_size, handle, tasks,
                   header, err, ret, calls, cmpVars>>

\* OpenFile with mode "w", which truncates the file
OpenFileTruncating ==
    /\ cell = "load" /\ pc = "open"
    /\ IF ~file.canOpen
       THEN /\ Raise("RuntimeError")
            /\ UNCHANGED <<handle, file>>
       ELSE /\ handle' = "open"
            /\ file' = [file EXCEPT !.bytes = <<>>]
            /\ pc' = "read"
            /\ UNCHANGED <<bufState, err, calls>>
    /\ UNCHANGED <<cell, warmVars, nthreads, file_size, image, tasks,
                   header, ret, cmpVars>>

\* with kvikio.CuFile(filename, "r") as f:
OpenFile ==
    /\ cell = "load" /\ pc = "open"
    /\ IF ~file.canOpen
       THEN /\ Raise("RuntimeError")
            /\ UNCHANGED <<handle>>
       ELSE /\ handle' = "open"
            /\ pc' = "read"
            /\ UNCHANGED <<bufState, err, calls>>
    /\ UNCHANGED <<cell, warmVars, nthreads, file, file_size, image, tasks,
                   header, ret, cmpVars>>

\* f.read(image): the read of image.nbytes bytes is handed to the thread pool
ReadSubmit ==
    /\ cell = "load" /\ pc = "read"
    /\ tasks' = [t \in 0..(NumTasks(Len(image)) - 1) |-> "queued"]
    /\ pc' = "reading"
    /\ UNCHANGED <<cell, warmVars, nthreads, file, file_size, image, bufState,
                   handle, header, err, ret, calls, cmpVars>>

\* a worker thread of the pool takes a queued task
TaskStart(t) ==
    /\ cell = "load" /\ pc = "reading"
    /\ tasks[t] = "queued"
    /\ Cardinality(Running) < nthreads
    /\ tasks' = [tasks EXCEPT ![t] = "running"]
    /\ UNCHANGED <<cell, warmVars, nthreads, file, pc, file_size, image, bufState,
                   handle, header, err, ret, calls, cmpVars>>

\* the worker copies its part of the file into the buffer (up to the end of
\* the file), or fails
TaskRun(t) ==
    /\ cell = "load" /\ pc = "reading"
    /\ tasks[t] = "running"
    /\ IF file.canRead
       THEN /\ image' = [p \in 1..Len(image) |->
                           IF p - 1 >= TaskLo(t) /\ p - 1 < TaskHi(t, Len(image))
                              /\ p <= Len(file.bytes)
                           THEN file.bytes[p] ELSE image[p]]
            /\ tasks' = [tasks EXCEPT ![t] = "done"]
       ELSE /\ tasks' = [tasks EXCEPT ![t] = "failed"]
            /\ UNCHANGED image
    /\ UNCHANGED <<cell, warmVars, nthreads, file, pc, file_size, bufState,
                   handle, header, err, ret, calls, cmpVars>>

\* ReadJoin that does not wait for the tasks (pread without get)
ReadJoinNoWait ==
    /\ cell = "load" /\ pc = "reading"
    /\ err' = IF \E t \in DOMAIN tasks : tasks[t] = "failed" THEN "RuntimeError" ELSE None
    /\ pc' = "with_exit"
    /\ UNCHANGED <<cell, warmVars, nthreads, file, file_size, image, bufState,
                   handle, tasks, header, ret, calls, cmpVars>>

\* read() is pread(...).get(): it returns once every task has finished, and
\* raises when one failed
ReadJoin ==
    /\ cell = "load" /\ pc = "reading"
    /\ Finished
    /\ err' = IF \E t \in DOMAIN tasks : tasks[t] = "failed" THEN "RuntimeError" ELSE None
    /\ pc' = "with_exit"
    /\ UNCHANGED <<cell, warmVars, nthreads, file, file_size, image, bufState,
                   handle, tasks, header, ret, calls, cmpVars>>

\* WithExit that closes f only when the block ended without an exception
\* (f.close() after the read instead of a with block)
WithExitNoFinally ==
    /\ cell = "load" /\ pc = "with_exit"
    /\ IF err # None
       THEN /\ Raise(err)
            /\ UNCHANGED handle
       ELSE /\ handle' = "closed"
            /\ pc' = "parse"
            /\ UNCHANGED <<bufState, err, calls>>
    /\ UNCHANGED <<cell, warmVars, nthreads, file, file_size, image, tasks,
                   header, ret, cmpVars>>

\* end of the with block: CuFile.__exit__ closes f, on the normal and on the
\* exceptional way out
WithExit ==
    /\ cell = "load" /\ pc = "with_exit"
    /\ handle' = "closed"
    /\ IF err # None
       THEN Raise(err)
       ELSE /\ pc' = "parse"
            /\ UNCHANGED <<bufState, err, calls>>
    /\ UNCHANGED <<cell, warmVars, nthreads, file, file_size, image, tasks,
                   header, ret, cmpVars>>

\* Parse that returns an empty result for a buffer shorter than the header
ParseShortReturnsEmpty ==
    /\ cell = "load" /\ pc = "parse"
    /\ IF Len(image) < HeaderLen
       THEN /\ ret' = Returned([shape |-> <<0>>, dtype |-> DT_UINT8, data |-> <<>>],
                               [affine |-> None])
            /\ calls' = Append(calls, ret')
            /\ bufState' = "returned"
            /\ pc' = "returned"
            /\ UNCHANGED <<header, err>>
       ELSE LET h == ParseHeader(SliceTo(image, HeaderLen)) IN
            IF h.error # None
            THEN /\ Raise(h.error)
                 /\ UNCHANGED <<header, ret>>
            ELSE /\ header' = h
                 /\ pc' = "reshape"
                 /\ UNCHANGED <<bufState, err, calls, ret>>
    /\ UNCHANGED <<cell, warmVars, nthreads, file, file_size, image, handle,
                   tasks, cmpVars>>

\* header_bytes = cp.asnumpy(image[:348]); header = Nifti1Header.from_fileobj(...)
\* data_offset, data_shape, data_dtype, affine = header.get_...()
Parse ==
    /\ cell = "load" /\ pc = "parse"
    /\ LET h == ParseHeader(SliceTo(image, HeaderLen)) IN
       IF h.error # None
       THEN /\ Raise(h.error)
            /\ UNCHANGED header
       ELSE /\ header' = h
            /\ pc' = "reshape"
            /\ UNCHANGED <<bufState, err, calls>>
    /\ UNCHANGED <<cell, warmVars, nthreads, file, file_size, image, handle,
                   tasks, ret, cmpVars>>

\* meta = dict(header); meta["affine"] = affine
Meta(h) == [data_offset |-> h.data_offset, data_shape |-> h.data_shape,
            data_dtype |-> h.data_dtype, affine |-> h.affine]

\* return image[data_offset:].view(data_dtype).reshape(data_shape, order="F"), meta
ReshapeReturn ==
    /\ cell = "load" /\ pc = "reshape"
    /\ LET v == View(SliceFrom(image, header.data_offset), header.data_dtype)
           r == IF v.error # None THEN v ELSE Reshape(v.elems, header.data_shape)
       IN  IF r.error # None
           THEN /\ Raise(r.error)
                /\ UNCHANGED ret
           ELSE /\ ret' = Returned([shape |-> r.shape, dtype |-> header.data_dtype,
                                    data |-> r.data], Meta(header))
                /\ calls' = Append(calls, ret')
                /\ bufState' = "returned"
                /\ pc' = "returned"
                /\ UNCHANGED err
    /\ UNCHANGED <<cell, warmVars, nthreads, file, file_size, image, handle,
                   tasks, header, cmpVars>>

\* the cell calling nifti_gpu_load(example_nifti_path) is run again
CallAgain ==
    /\ cell = "load" /\ pc \in {"returned", "raised"}
    /\ Len(calls) < MaxCalls
    /\ pc' = "getsize"
    /\ file_size' = 0
    /\ image' = <<>>
    /\ bufState' = "none"
    /\ handle' = "none"
    /\ tasks' = <<>>
    /\ header' = NoHeader
    /\ err' = None
    /\ ret' = NoResult
    /\ UNCHANGED <<cell, warmVars, nthreads, file, calls, cmpVars>>

----------------------------------------------------------------------------
(* warmup_kvikio() *)

\* the frame of warmup_kvikio is left: a CuFile object only the local f
\* referred to is finalized, and its destructor closes the file
Finalize(h) == IF h = "open" THEN "finalized" ELSE h

\* a = cp.arange(100); with tempfile.NamedTemporaryFile() as tmp_file:
WCreateTmp ==
    /\ cell = "warmup" /\ wpc = "start"
    /\ tmp' = "open"
    /\ wpc' = "open_w"
    /\ UNCHANGED <<cell, wh, rh, werr, nthreads, loadVars, cmpVars>>

\* f = kvikio.CuFile(tmp_file_name, "w")
WOpenW ==
    /\ cell = "warmup" /\ wpc = "open_w"
    /\ \E ok \in BOOLEAN :
          IF ok THEN /\ wh' = "open" /\ wpc' = "write" /\ UNCHANGED werr
                ELSE /\ werr' = "RuntimeError" /\ wpc' = "with_exit" /\ UNCHANGED wh
    /\ UNCHANGED <<cell, rh, tmp, nthreads, loadVars, cmpVars>>

\* f.write(a)
WWrite ==
    /\ cell = "warmup" /\ wpc = "write"
    /\ \E ok \in BOOLEAN :
          IF ok THEN /\ wpc' = "close_w" /\ UNCHANGED werr
                ELSE /\ werr' = "RuntimeError" /\ wpc' = "with_exit"
    /\ UNCHANGED <<cell, wh, rh, tmp, nthreads, loadVars, cmpVars>>

\* f.close()
WCloseW ==
    /\ cell = "warmup" /\ wpc = "close_w"
    /\ wh' = "closed"
    /\ wpc' = "open_r"
    /\ UNCHANGED <<cell, rh, tmp, werr, nthreads, loadVars, cmpVars>>

\* b = cp.empty_like(a); f = kvikio.CuFile(tmp_file_name, "r")
WOpenR ==
    /\ cell = "warmup" /\ wpc = "open_r"
    /\ \E ok \in BOOLEAN :
          IF ok THEN /\ rh' = "open" /\ wpc' = "read" /\ UNCHANGED werr
                ELSE /\ werr' = "RuntimeError" /\ wpc' = "with_exit" /\ UNCHANGED rh
    /\ UNCHANGED <<cell, wh, tmp, nthreads, loadVars, cmpVars>>

\* f.read(b), the last statement of the with block
WRead ==
    /\ cell = "warmup" /\ wpc = "read"
    /\ \E ok \in BOOLEAN :
          IF ok THEN UNCHANGED werr ELSE werr' = "RuntimeError"
    /\ wpc' = "with_exit"
    /\ UNCHANGED <<cell, wh, rh, tmp, nthreads, loadVars, cmpVars>>

\* end of the with block: NamedTemporaryFile.__exit__ closes and deletes the
\* temporary file; an exception in flight goes on to the caller
WWithExit ==
    /\ cell = "warmup" /\ wpc = "with_exit"
    /\ tmp' = "deleted"
    /\ wpc' = IF werr # None THEN "raising" ELSE "cupy"
    /\ UNCHANGED <<cell, wh, rh, werr, nthreads, loadVars, cmpVars>>

\* c = cp.random.rand(100, 100, 3); d = cp.mean(c); the function returns
WReturn ==
    /\ cell = "warmup" /\ wpc = "cupy"
    /\ wpc' = "returned"
    /\ wh' = Finalize(wh)
    /\ rh' = Finalize(rh)
    /\ UNCHANGED <<cell, tmp, werr, nthreads, loadVars, cmpVars>>

\* the exception leaves warmup_kvikio; the notebook run stops here
WRaise ==
    /\ cell = "warmup" /\ wpc = "raising"
    /\ wpc' = "raised"
    /\ wh' = Finalize(wh)
    /\ rh' = Finalize(rh)
    /\ UNCHANGED <<cell, tmp, werr, nthreads, loadVars, cmpVars>>

----------------------------------------------------------------------------
(* The cells between warmup_kvikio() and the first nifti_gpu_load call *)

\* kvikio.defaults.num_threads_reset(nthreads=4)
SetThreads ==
    /\ cell = "warmup" /\ wpc = "returned"
    /\ nthreads' = NumThreads
    /\ cell' = "prepare"
    /\ UNCHANGED <<warmVars, loadVars, cmpVars>>

\* download, extract and decompress: some file, or none, is at
\* example_nifti_path afterwards; then nifti_gpu_load(example_nifti_path)
PrepareData ==
    /\ cell = "prepare"
    /\ \E f \in Files : file' = f
    /\ cell' = "load"
    /\ pc' = "getsize"
    /\ UNCHANGED <<warmVars, nthreads, file_size, image, bufState, handle,
                   tasks, header, err, ret, calls, cmpVars>>

----------------------------------------------------------------------------
(* Validation: np.all(img_cpu.affine == meta_gpu["affine"]) and            *)
(* np.allclose(img_cpu_array, img_gpu)                                     *)

\* dimension k (1-based, of n) of shape s once aligned to the right
DimAt(s, k, n) == LET j == k - (n - Len(s)) IN IF j < 1 THEN 1 ELSE s[j]

\* numpy broadcasting of two shapes
Broadcastable(sa, sb) ==
    LET n == Max(Len(sa), Len(sb)) IN
    \A k \in 1..n : \/ DimAt(sa, k, n) = DimAt(sb, k, n)
                    \/ DimAt(sa, k, n) = 1
                    \/ DimAt(sb, k, n) = 1

BroadcastShape(sa, sb) ==
    LET n == Max(Len(sa), Len(sb)) IN
    [k \in 1..n |-> IF DimAt(sa, k, n) = 1 THEN DimAt(sb, k, n) ELSE DimAt(sa, k, n)]

\* the index into an array of shape s that index idx of the broadcast
\* result (of n dimensions) reads
BroadcastIndex(idx, s, n) ==
    [j \in 1..Len(s) |-> IF s[j] = 1 THEN 0 ELSE idx[j + (n - Len(s))]]

\* np.isclose for one pair: |a - b| <= atol + rtol * |b|
IsClose(a, b) == Abs(a - b) <= AtolUnits + (Abs(b) \div RtolInv)

\* what print shows for a boolean
Str(b) == IF b THEN "True" ELSE "False"

\* np.allclose(A, B): True, False, or ValueError when the shapes cannot be
\* broadcast together
AllClose(A, B) ==
    IF ~Broadcastable(A.shape, B.shape)
    THEN "ValueError"
    ELSE LET out == BroadcastShape(A.shape, B.shape)
             n == Len(out)
         IN  Str(\A idx \in Indices(out) :
                    IsClose(A.data[BroadcastIndex(idx, A.shape, n)],
                            B.data[BroadcastIndex(idx, B.shape, n)]))

\* np.all(P == Q) for two 4x4 affines
AffineEqual(P, Q) == \A r \in 1..4 : \A c \in 1..4 : P[r][c] = Q[r][c]

\* print(np.all(img_cpu.affine == meta_gpu["affine"]))
ValidateAffine ==
    /\ cell = "validate_affine"
    /\ cmpRes' = [cmpRes EXCEPT !.affine = Str(AffineEqual(affA, affB))]
    /\ cell' = "validate_array"
    /\ UNCHANGED <<warmVars, nthreads, loadVars, cmpA, cmpB, affA, affB>>

\* print(np.allclose(img_cpu_array, img_gpu))
ValidateArray ==
    /\ cell = "validate_array"
    /\ cmpRes' = [cmpRes EXCEPT !.array = AllClose(cmpA, cmpB)]
    /\ cell' = "validated"
    /\ UNCHANGED <<warmVars, nthreads, loadVars, cmpA, cmpB, affA, affB>>

\* the outcome of the comparison as a whole: both checks passed, or the
\* exception np.allclose raised
CompareOutcome ==
    IF cmpRes.array = "ValueError" THEN "ValueError"
    ELSE Str(cmpRes.affine = "True" /\ cmpRes.array = "True")

----------------------------------------------------------------------------
(* Inputs of the validation *)

\* element values, in units of 1e-8
Values == {0, 1, 300000, 300003}

ArraysOf(shape, vals) ==
    { [shape |-> shape, data |-> d] : d \in [Indices(shape) -> vals] }

Constant(shape, v) == [shape |-> shape, data |-> [idx \in Indices(shape) |-> v]]

Arrays ==
    ArraysOf(<<1>>, Values) \cup ArraysOf(<<2>>, Values)
    \cup ArraysOf(<<1, 2>>, Values) \cup ArraysOf(<<2, 1>>, Values)
    \cup ArraysOf(<<3>>, {0, 1})
    \cup { Constant(<<2, 2, 2>>, v) : v \in Values }

Identity4 == << <<1, 0, 0, 0>>, <<0, 1, 0, 0>>, <<0, 0, 1, 0>>, <<0, 0, 0, 1>> >>
Affines == { Identity4,
             [Identity4 EXCEPT ![2][4] = 1],
             << <<2, 0, 0, -5>>, <<0, 1, 0, 0>>, <<0, 0, 3, 7>>, <<0, 0, 0, 1>> >> }

----------------------------------------------------------------------------
(* Specifications *)

InitWarm ==
    /\ wpc = "start" /\ wh = "none" /\ rh = "none" /\ tmp = "none" /\ werr = None

InitLoad ==
    /\ file = MissingFile
    /\ pc = "idle" /\ file_size = 0 /\ image = <<>> /\ bufState = "none"
    /\ handle = "none" /\ tasks = <<>> /\ header = NoHeader /\ err = None
    /\ ret = NoResult /\ calls = <<>>

NoCompare == [affine |-> None, array |-> None]

\* the notebook from its first code cell on
Init ==
    /\ cell = "warmup"
    /\ nthreads = DefaultThreads
    /\ InitWarm /\ InitLoad
    /\ cmpA = Constant(<<1>>, 0) /\ cmpB = Constant(<<1>>, 0)
    /\ affA = Identity4 /\ affB = Identity4
    /\ cmpRes = NoCompare

Next ==
    \/ WCreateTmp \/ WOpenW \/ WWrite \/ WCloseW \/ WOpenR \/ WRead
    \/ WWithExit \/ WReturn \/ WRaise
    \/ SetThreads \/ PrepareData
    \/ GetSize \/ Alloc \/ OpenFile \/ ReadSubmit
    \/ (\E t \in DOMAIN tasks : TaskStart(t))
    \/ (\E t \in DOMAIN tasks : TaskRun(t))
    \/ ReadJoin \/ WithExit \/ Parse \/ ReshapeReturn \/ CallAgain

Spec == Init /\ [][Next]_vars

\* the validation cells on arbitrary pairs of arrays and affines
InitCompare ==
    /\ cell = "validate_affine"
    /\ nthreads = NumThreads
    /\ InitWarm /\ InitLoad
    /\ cmpA \in Arrays /\ cmpB \in Arrays
    /\ affA \in Affines /\ affB \in Affines
    /\ cmpRes = NoCompare

NextCompare == ValidateAffine \/ ValidateArray

SpecCompare == InitCompare /\ [][NextCompare]_vars

----------------------------------------------------------------------------
(* Properties *)

\* the error classes of the design, as sets of the exceptions the code raises
IOErrors == {"FileNotFoundError", "PermissionError", "OSError"}
FormatErrors == {"WrapStructError", "HeaderDataError", "ValueError"}

Readable(f) == f.exists /\ f.canOpen /\ f.canRead

\* what the header of the file on storage declares
Declared == ParseHeader(SliceTo(file.bytes, HeaderLen))
HeaderParses == Len(file.bytes) >= HeaderLen /\ Declared.error = None
DeclaredBytes == Prod(Declared.data_shape) * ItemSize(Declared.data_dtype)
PayloadBytes == Len(file.bytes) - Declared.data_offset
ValidFile == Readable(file) /\ HeaderParses /\ DeclaredBytes = PayloadBytes

\* payload element number e of the file on storage, decoded at data_offset
PayloadElement(e) ==
    LET w == ItemSize(Declared.data_dtype)
        p == Declared.data_offset + e * w
    IN  IF Declared.data_dtype = DT_UINT8 THEN file.bytes[p + 1]
        ELSE LET u == file.bytes[p + 1] + 256 * file.bytes[p + 2]
             IN  IF u >= 32768 THEN u - 65536 ELSE u

Exited == cell = "load" /\ pc \in {"returned", "raised"}

C2_ByteCountMismatchFails ==
    (cell = "load" /\ Readable(file) /\ HeaderParses /\ DeclaredBytes # PayloadBytes)
    => /\ pc # "returned"
       /\ ret = NoResult
       /\ pc = "raised" => err \in FormatErrors
       /\ \A i \in DOMAIN calls :
             calls[i].kind = "raised" /\ calls[i].error \in FormatErrors

\* C2 witness: the payload is longer than declared and the call has raised
C2_Witness ==
    /\ cell = "load" /\ Readable(file) /\ HeaderParses
    /\ PayloadBytes > DeclaredBytes
    /\ pc = "raised" /\ err = "ValueError"

\* C2 second witness state: the payload is shorter than declared
C2_WitnessShort ==
    /\ cell = "load" /\ Readable(file) /\ HeaderParses
    /\ PayloadBytes < DeclaredBytes
    /\ pc = "raised" /\ err = "ValueError"

\* C3: for a readable file shorter than the 348 header bytes, the empty file
\* included, every call raises an exception of the format class and none
\* returns an (array, meta) pair.
C3_TruncatedFileFails ==
    (cell = "load" /\ Readable(file) /\ Len(file.bytes) < HeaderLen)
    => /\ pc # "returned"
       /\ ret = NoResult
       /\ pc = "raised" => err \in FormatErrors
       /\ \A i \in DOMAIN calls :
             calls[i].kind = "raised" /\ calls[i].error \in FormatErrors

\* C3 witness: the empty file, read and rejected by the header parser
C3_Witness ==
    /\ cell = "load" /\ Readable(file) /\ Len(file.bytes) = 0
    /\ pc = "raised" /\ err = "WrapStructError" /\ handle = "closed"

\* C4: with no file at the path the call raises an exception of the I/O
\* class from os.path.getsize, before a buffer is allocated and before a
\* handle is opened.
C4_MissingPathFailsFirst ==
    (cell = "load" /\ ~file.exists)
    => /\ pc \in {"getsize", "raised"}
       /\ bufState = "none" /\ image = <<>> /\ handle = "none"
       /\ pc = "raised" => err \in IOErrors
       /\ \A i \in DOMAIN calls :
             calls[i].kind = "raised" /\ calls[i].error \in IOErrors

\* C4 witness: the call on the missing path has raised
C4_Witness ==
    /\ cell = "load" /\ ~file.exists /\ pc = "raised" /\ err = "FileNotFoundError"

\* C6: for a valid file the returned array has the declared shape and its
\* element at (i, j, k) is payload element i + d0*j + d0*d1*k, the payload
\* starting at data_offset; for the scenario file (data_offset 352, shape
\* (4,4,4), int16 values 0..63) element (i, j, k) is i + 4*j + 16*k.
C6_ColumnMajorFromDataOffset ==
    (cell = "load" /\ pc = "returned" /\ ValidFile)
    => /\ ret.img.shape = Declared.data_shape
       /\ DOMAIN ret.img.data = Indices(Declared.data_shape)
       /\ Len(Declared.data_shape) = 3 =>
             \A idx \in Indices(Declared.data_shape) :
                ret.img.data[idx] =
                   PayloadElement(idx[1] + Declared.data_shape[1] * idx[2]
                       + Declared.data_shape[1] * Declared.data_shape[2] * idx[3])
       /\ file.bytes = ImageBytes(ScenarioHeader, 0, 480) =>
             \A i \in 0..3 : \A j \in 0..3 : \A k \in 0..3 :
                ret.img.data[<<i, j, k>>] = i + 4 * j + 16 * k

\* C6 witness: a file with a gap of 20 bytes after the header and shape
\* (2,3,4) has been loaded
C6_Witness ==
    /\ cell = "load" /\ pc = "returned" /\ ValidFile
    /\ Declared.data_offset = 368 /\ Declared.data_shape = <<2, 3, 4>>
    /\ Declared.data_dtype = DT_INT16

\* C6 second witness state: the scenario file has been loaded
C6_WitnessScenario ==
    /\ cell = "load" /\ pc = "returned"
    /\ file.bytes = ImageBytes(ScenarioHeader, 0, 480)
    /\ ret.meta.affine = Identity4

\* C8, state part: when the first call returned, the second call returned
\* the same array and metadata, and a call starts without a handle, buffer
\* or read task left from the call before.
C8_SecondCallEqual ==
    /\ (Len(calls) >= 2 /\ calls[1].kind = "returned") => calls[2] = calls[1]
    /\ (cell = "load" /\ pc = "getsize") =>
          /\ handle = "none" /\ bufState = "none" /\ image = <<>>
          /\ tasks = <<>> /\ header = NoHeader /\ ret = NoResult

\* C8: two successive calls on the unmodified valid file return equal array
\* contents and equal metadata; no call changes the file, and no call starts
\* with state retained from the call before.
C8_Idempotent ==
    /\ []C8_SecondCallEqual
    /\ [][cell = "load" => file' = file]_vars

\* C8 witness: two calls on the same file have returned
C8_Witness ==
    /\ Len(calls) = 2 /\ calls[1].kind = "returned" /\ calls[2].kind = "returned"
    /\ pc = "returned"

\* C9: with the pool of 4 threads, at most 4 read tasks run at a time, and
\* the header slice, the reshape and the return happen only after every
\* read task has finished: every byte of the buffer has been written with
\* the byte of the file by then.
C9_ReadCompleteBeforeUse ==
    /\ cell = "load" => nthreads = NumThreads /\ Cardinality(Running) <= NumThreads
    /\ (cell = "load" /\ pc \in {"parse", "reshape", "returned"}) =>
          /\ \A t \in DOMAIN tasks : tasks[t] = "done"
          /\ DOMAIN tasks = 0..(NumTasks(Len(file.bytes)) - 1)
          /\ Len(image) = Len(file.bytes)
          /\ \A p \in 1..Len(image) : image[p] # Uninit /\ image[p] = file.bytes[p]

\* C9 witness: a read split into more tasks than the pool has threads has
\* been joined and the header is about to be taken from the buffer
C9_Witness ==
    /\ cell = "load" /\ pc = "parse"
    /\ Cardinality(DOMAIN tasks) > NumThreads
    /\ \A t \in DOMAIN tasks : tasks[t] = "done"

\* C10: in warmup_kvikio the write handle is closed before the read handle
\* is opened, and the write handle and the read handle are closed by the
\* time the temporary file is deleted and by the time the function has
\* finished, also when the write or the read raises.
C10_WarmupHandlesClosed ==
    /\ rh # "none" => wh = "closed"
    /\ tmp = "deleted" => (wh # "open" /\ rh # "open")
    /\ wpc \in {"returned", "raised"} => (wh # "open" /\ rh # "open")

\* C5: for arrays of different shape the comparison ends with the shape
\* error, never with true or false.
C5_DifferentShapesRaise ==
    (cell = "validated" /\ cmpA.shape # cmpB.shape) => CompareOutcome = "ValueError"

\* every pair of corresponding elements is within the tolerance
ElementsClose ==
    \A idx \in Indices(cmpA.shape) : IsClose(cmpA.data[idx], cmpB.data[idx])

\* C7: the comparison is true exactly when the shapes match, every pair of
\* corresponding elements is within the tolerance and the affines are
\* exactly equal.
C7_TrueIffAllThree ==
    cell = "validated" =>
       ((CompareOutcome = "True") <=>
           (cmpA.shape = cmpB.shape /\ ElementsClose /\ affA = affB))

====
